---- MODULE Spec2Model ----
(***************************************************************************)
(* A model of confstruct: the typed configuration loader (loader.py), its  *)
(* decode / encode hooks (hooks/dec.py, hooks/enc.py), the validated types *)
(* ListOf and SecretStr (types/) and the providers (providers/).           *)
(*                                                                         *)
(* Python strings are sequences of one-character strings, so that case     *)
(* folding, splitting, trimming, parsing and formatting are computed       *)
(* character by character.  Python values are records tagged by their      *)
(* class in field k.  A call either returns (Ok) or raises (Raise).        *)
(***************************************************************************)
EXTENDS Integers, Sequences, FiniteSets, TLC

VARIABLES
    environ,                    \* os.environ: insertion-ordered <<name, value>> pairs
    env_cache,                  \* EnvProvider._env_cache: NoCache or ordered pairs
    env_cache_case_sensitive,   \* EnvProvider._env_cache_case_sensitive
    provider,                   \* the provider instance in use (NoProvider before construction)
    call,                       \* the last call made: function name and arguments
    ret                         \* what the last call returned or raised

vars == <<environ, env_cache, env_cache_case_sensitive, provider, call, ret>>

-----------------------------------------------------------------------------
(* Bounds of the model *)

\* longest payload / raw string drawn as an input
MaxLen == 2
\* most elements of a list, tuple or dict value drawn as an input
MaxElems == 2

-----------------------------------------------------------------------------
(* Results of calls *)

Ok(v) == [ok |-> TRUE, val |-> v]
Raise(e, m) == [ok |-> FALSE, exc |-> e, msg |-> m]

\* except (TypeError, ValueError): the classes caught, subclasses included
ExcBases(e) ==
    CASE e = "JSONDecodeError" -> {"JSONDecodeError", "ValueError", "Exception"}
      [] e = "UnicodeDecodeError" -> {"UnicodeDecodeError", "ValueError", "Exception"}
      [] e = "RecursionError" -> {"RecursionError", "RuntimeError", "Exception"}
      [] e = "ValidationError" -> {"ValidationError", "DecodeError", "MsgspecError", "Exception"}
      [] OTHER -> {e, "Exception"}

Caught(r, classes) == ~r.ok /\ ExcBases(r.exc) \cap classes # {}

-----------------------------------------------------------------------------
(* Python strings *)

LowerLetters ==
    <<"a","b","c","d","e","f","g","h","i","j","k","l","m",
      "n","o","p","q","r","s","t","u","v","w","x","y","z">>
UpperLetters ==
    <<"A","B","C","D","E","F","G","H","I","J","K","L","M",
      "N","O","P","Q","R","S","T","U","V","W","X","Y","Z">>
DigitChars == <<"0","1","2","3","4","5","6","7","8","9">>

InSeq(c, s) == \E i \in 1..Len(s) : s[i] = c
PosIn(c, s) == CHOOSE i \in 1..Len(s) : s[i] = c

lower_char(c) == IF InSeq(c, UpperLetters) THEN LowerLetters[PosIn(c, UpperLetters)] ELSE c
upper_char(c) == IF InSeq(c, LowerLetters) THEN UpperLetters[PosIn(c, LowerLetters)] ELSE c

\* str.lower(), str.upper()
str_lower(s) == [i \in 1..Len(s) |-> lower_char(s[i])]
str_upper(s) == [i \in 1..Len(s) |-> upper_char(s[i])]

\* str.islower(): at least one cased character and no uppercase one
str_islower(s) ==
    /\ \E i \in 1..Len(s) : InSeq(s[i], LowerLetters)
    /\ \A i \in 1..Len(s) : ~InSeq(s[i], UpperLetters)

IsDigit(c) == InSeq(c, DigitChars)
DigitVal(c) == PosIn(c, DigitChars) - 1
IsSpace(c) == c = " "

RECURSIVE digits_of(_)
digits_of(n) ==
    IF n < 10 THEN <<DigitChars[n + 1]>>
    ELSE digits_of(n \div 10) \o <<DigitChars[(n % 10) + 1]>>

\* str(i) of an int
int_str(i) == IF i < 0 THEN <<"-">> \o digits_of(-i) ELSE digits_of(i)

\* repr(f) of a float held in thousandths
float_str(m) ==
    LET a == IF m < 0 THEN -m ELSE m
        f == a % 1000
        fd == <<DigitChars[(f \div 100) + 1], DigitChars[((f \div 10) % 10) + 1],
                DigitChars[(f % 10) + 1]>>
        shown == IF f = 0 THEN <<"0">>
                 ELSE IF f % 100 = 0 THEN SubSeq(fd, 1, 1)
                 ELSE IF f % 10 = 0 THEN SubSeq(fd, 1, 2)
                 ELSE fd
    IN (IF m < 0 THEN <<"-">> ELSE <<>>) \o digits_of(a \div 1000) \o <<".">> \o shown

RECURSIVE digits_val(_)
digits_val(s) ==
    IF Len(s) = 0 THEN 0
    ELSE 10 * digits_val(SubSeq(s, 1, Len(s) - 1)) + DigitVal(s[Len(s)])

\* str.strip()
RECURSIVE lstrip(_)
lstrip(s) == IF Len(s) > 0 /\ IsSpace(s[1]) THEN lstrip(Tail(s)) ELSE s
RECURSIVE rstrip(_)
rstrip(s) ==
    IF Len(s) > 0 /\ IsSpace(s[Len(s)]) THEN rstrip(SubSeq(s, 1, Len(s) - 1)) ELSE s
str_strip(s) == rstrip(lstrip(s))

\* str.split(sep) for a one-character separator: always at least one piece
RECURSIVE str_split(_, _)
str_split(s, sep) ==
    IF ~InSeq(sep, s) THEN <<s>>
    ELSE LET i == CHOOSE j \in 1..Len(s) :
                      s[j] = sep /\ \A h \in 1..(j - 1) : s[h] # sep
         IN <<SubSeq(s, 1, i - 1)>> \o str_split(SubSeq(s, i + 1, Len(s)), sep)

str_startswith(s, c) == Len(s) > 0 /\ s[1] = c
str_endswith(s, c) == Len(s) > 0 /\ s[Len(s)] = c

RECURSIVE str_join(_, _)
str_join(sep, parts) ==
    IF Len(parts) = 0 THEN <<>>
    ELSE IF Len(parts) = 1 THEN parts[1]
    ELSE parts[1] \o sep \o str_join(sep, Tail(parts))

-----------------------------------------------------------------------------
(* Python values *)

PyStr(s) == [k |-> "str", s |-> s]
PyInt(i) == [k |-> "int", i |-> i]
PyBool(b) == [k |-> "bool", b |-> b]
PyNone == [k |-> "NoneType"]
PyList(items) == [k |-> "list", items |-> items]
PyTuple(items) == [k |-> "tuple", items |-> items]
\* a dict keeps insertion order: pairs is a sequence of <<key, value>>
PyDict(pairs) == [k |-> "dict", pairs |-> pairs]
\* a float is held in thousandths: exact for the decimals of the model
PyFloat(milli) == [k |-> "float", milli |-> milli]

\* the results of a comprehension: its first failure, else the values
Collect(rs) ==
    IF \E i \in 1..Len(rs) : ~rs[i].ok
    THEN rs[CHOOSE i \in 1..Len(rs) : ~rs[i].ok /\ \A h \in 1..(i - 1) : rs[h].ok]
    ELSE Ok([i \in 1..Len(rs) |-> rs[i].val])

\* try: r / except classes: alt
Except(r, classes, alt) == IF Caught(r, classes) THEN alt ELSE r

\* digits, after the sign was taken off
IntFromDigits(neg, d) ==
    IF Len(d) > 0 /\ \A i \in 1..Len(d) : IsDigit(d[i])
    THEN Ok(PyInt(IF neg THEN -digits_val(d) ELSE digits_val(d)))
    ELSE Raise("ValueError", <<"invalid literal for int() with base 10">>)

Unsigned(t) == IF Len(t) > 0 /\ (t[1] = "-" \/ t[1] = "+") THEN Tail(t) ELSE t
IsNegative(t) == Len(t) > 0 /\ t[1] = "-"

\* int(s) of a str: optional surrounding whitespace, optional sign, digits
\* (the digit-group underscores int() also accepts are outside the alphabets used)
int_of_str(s) == IntFromDigits(IsNegative(str_strip(s)), Unsigned(str_strip(s)))

\* whole and fraction digits, the fraction of up to 3 digits
FloatFromDigits(neg, whole, frac) ==
    IF /\ Len(whole) + Len(frac) > 0
       /\ Len(frac) <= 3
       /\ \A i \in 1..Len(whole) : IsDigit(whole[i])
       /\ \A i \in 1..Len(frac) : IsDigit(frac[i])
    THEN Ok(PyFloat((IF neg THEN -1 ELSE 1)
                    * (1000 * digits_val(whole)
                       + digits_val(frac \o [i \in 1..(3 - Len(frac)) |-> "0"]))))
    ELSE Raise("ValueError", <<"could not convert string to float">>)

FloatFromParts(neg, parts) ==
    IF Len(parts) > 2 THEN Raise("ValueError", <<"could not convert string to float">>)
    ELSE FloatFromDigits(neg, parts[1], IF Len(parts) = 2 THEN parts[2] ELSE <<>>)

\* float(s) of a str: optional sign, digits, an optional fraction
float_of_str(s) ==
    FloatFromParts(IsNegative(str_strip(s)), str_split(Unsigned(str_strip(s)), "."))

\* a display that follows the payload: a mask as long as the secret
SecretStr_str_length_mask(self) == PyStr([i \in 1..Len(self._value) |-> "*"])

\* SecretStr.__str__: the fixed mask
SecretStr_str(self) == PyStr(<<"*", "*", "*">>)

\* SecretStr.__repr__
SecretStr_repr(self) ==
    PyStr(<<"S","e","c","r","e","t","S","t","r","(","'","*","*","*","'",")">>)

\* "[" + ", ".join(texts) + "]", or the failure of an item
Bracketed(c) ==
    IF c.ok
    THEN Ok(PyStr(<<"[">> \o str_join(<<",", " ">>, [i \in 1..Len(c.val) |-> c.val[i].s])
                  \o <<"]">>))
    ELSE c

\* repr(v): a class's own __repr__ / __str__ may raise
RECURSIVE py_repr(_)
py_repr(v) ==
    CASE v.k = "str" -> Ok(PyStr(<<"'">> \o v.s \o <<"'">>))
      [] v.k = "int" -> Ok(PyStr(int_str(v.i)))
      [] v.k = "float" -> Ok(PyStr(float_str(v.milli)))
      [] v.k = "bool" -> Ok(PyStr(IF v.b THEN <<"T","r","u","e">> ELSE <<"F","a","l","s","e">>))
      [] v.k = "NoneType" -> Ok(PyStr(<<"N","o","n","e">>))
      [] v.k = "SecretStr" -> Ok(SecretStr_repr(v))
      [] v.k \in {"list", "ListOf"} ->
            Bracketed(Collect([i \in 1..Len(v.items) |-> py_repr(v.items[i])]))
      [] v.k = "object" -> v.str_result
      [] OTHER -> Ok(PyStr(<<"<", v.k, ">">>))

\* str(v)
py_str(v) ==
    CASE v.k = "str" -> Ok(v)
      [] v.k = "SecretStr" -> Ok(SecretStr_str(v))
      [] OTHER -> py_repr(v)

\* json.dumps(v) with the default encoder
RECURSIVE json_dumps(_)
json_dumps(v) ==
    CASE v.k = "str" -> Ok(PyStr(<<"\"">> \o v.s \o <<"\"">>))
      [] v.k = "bool" -> Ok(PyStr(IF v.b THEN <<"t","r","u","e">> ELSE <<"f","a","l","s","e">>))
      [] v.k = "int" -> Ok(PyStr(int_str(v.i)))
      [] v.k = "float" -> Ok(PyStr(float_str(v.milli)))
      [] v.k = "NoneType" -> Ok(PyStr(<<"n","u","l","l">>))
      [] v.k \in {"list", "tuple", "ListOf"} ->
            Bracketed(Collect([i \in 1..Len(v.items) |-> json_dumps(v.items[i])]))
      [] OTHER -> Raise("TypeError", <<"Object of type ", v.k, " is not JSON serializable">>)

\* bool(v): truthiness
py_truth(v) ==
    CASE v.k = "bool" -> v.b
      [] v.k = "int" -> v.i # 0
      [] v.k = "float" -> v.milli # 0
      [] v.k = "str" -> Len(v.s) > 0
      [] v.k = "NoneType" -> FALSE
      [] v.k \in {"list", "tuple", "ListOf", "bytes"} -> Len(v.items) > 0
      [] v.k = "dict" -> Len(v.pairs) > 0
      [] OTHER -> TRUE

\* iter(v): the items of an iterable, or TypeError
py_iter(v) ==
    CASE v.k \in {"list", "tuple", "ListOf"} -> Ok(v.items)
      [] v.k = "str" -> Ok([i \in 1..Len(v.s) |-> PyStr(<<v.s[i]>>)])
      [] v.k = "dict" -> Ok([i \in 1..Len(v.pairs) |-> v.pairs[i][1]])
      [] OTHER -> Raise("TypeError", <<"'", v.k, "' object is not iterable">>)

\* d[key] = value on an insertion-ordered dict
DictPut(pairs, key, value) ==
    IF \E i \in 1..Len(pairs) : pairs[i][1] = key
    THEN [i \in 1..Len(pairs) |-> IF pairs[i][1] = key THEN <<key, value>> ELSE pairs[i]]
    ELSE Append(pairs, <<key, value>>)

RECURSIVE DictFromPairs(_, _)
DictFromPairs(acc, pairs) ==
    IF Len(pairs) = 0 THEN acc
    ELSE DictFromPairs(DictPut(acc, pairs[1][1], pairs[1][2]), Tail(pairs))

\* list(v), tuple(v)
SequenceOf(name, it) == IF it.ok THEN Ok([k |-> name, items |-> it.val]) ELSE it

\* dict(v) of an iterable of two-item iterables
DictOfElems(elems) ==
    IF \E i \in 1..Len(elems) : ~elems[i].ok
    THEN Raise("TypeError",
               <<"cannot convert dictionary update sequence element to a sequence">>)
    ELSE IF \E i \in 1..Len(elems) : Len(elems[i].val) # 2
    THEN Raise("ValueError", <<"dictionary update sequence element has the wrong length">>)
    ELSE Ok(PyDict(DictFromPairs(<<>>,
                [i \in 1..Len(elems) |-> <<elems[i].val[1], elems[i].val[2]>>])))

DictOfItems(it) ==
    IF it.ok THEN DictOfElems([i \in 1..Len(it.val) |-> py_iter(it.val[i])]) ELSE it

\* typ(value) for the builtin classes: int, float, str, bool, list, tuple, dict, bytes
py_construct(name, v) ==
    CASE name = "int" /\ v.k = "int" -> Ok(v)
      [] name = "int" /\ v.k = "bool" -> Ok(PyInt(IF v.b THEN 1 ELSE 0))
      [] name = "int" /\ v.k = "float" ->
            Ok(PyInt(IF v.milli < 0 THEN -((-v.milli) \div 1000) ELSE v.milli \div 1000))
      [] name = "int" /\ v.k = "str" -> int_of_str(v.s)
      [] name = "int" /\ v.k \notin {"int", "bool", "float", "str"} ->
            Raise("TypeError",
                  <<"int() argument must be a string or a real number, not '", v.k, "'">>)
      [] name = "float" /\ v.k = "float" -> Ok(v)
      [] name = "float" /\ v.k = "int" -> Ok(PyFloat(1000 * v.i))
      [] name = "float" /\ v.k = "bool" -> Ok(PyFloat(IF v.b THEN 1000 ELSE 0))
      [] name = "float" /\ v.k = "str" -> float_of_str(v.s)
      [] name = "float" /\ v.k \notin {"int", "bool", "float", "str"} ->
            Raise("TypeError",
                  <<"float() argument must be a string or a real number, not '", v.k, "'">>)
      [] name = "str" -> py_str(v)
      [] name = "bool" -> Ok(PyBool(py_truth(v)))
      [] name \in {"list", "tuple"} -> SequenceOf(name, py_iter(v))
      [] name = "dict" -> IF v.k = "dict" THEN Ok(v) ELSE DictOfItems(py_iter(v))
      [] name = "bytes" /\ v.k = "bytes" -> Ok(v)
      [] name = "bytes" /\ v.k = "int" ->
            IF v.i < 0 THEN Raise("ValueError", <<"negative count">>)
            ELSE Ok([k |-> "bytes", items |-> [i \in 1..v.i |-> PyInt(0)]])
      [] name = "bytes" /\ v.k = "bool" ->
            Ok([k |-> "bytes", items |-> [i \in 1..(IF v.b THEN 1 ELSE 0) |-> PyInt(0)]])
      [] name = "bytes" /\ v.k = "str" ->
            Raise("TypeError", <<"string argument without an encoding">>)
      [] name = "bytes" /\ v.k \in {"list", "tuple", "ListOf"} ->
            IF \E i \in 1..Len(v.items) : v.items[i].k \notin {"int", "bool"}
            THEN Raise("TypeError", <<"'", "object", "' cannot be interpreted as an integer">>)
            ELSE IF \E i \in 1..Len(v.items) :
                      v.items[i].k = "int" /\ (v.items[i].i < 0 \/ v.items[i].i > 255)
            THEN Raise("ValueError", <<"bytes must be in range(0, 256)">>)
            ELSE Ok([k |-> "bytes", items |-> v.items])
      [] name = "bytes" /\ v.k \notin {"bytes", "int", "bool", "str", "list", "tuple", "ListOf"} ->
            Raise("TypeError", <<"cannot convert '", v.k, "' object to bytes">>)

\* [typ(item) for item in items]: the first failure ends the comprehension
ConstructAll(name, items) ==
    Collect([i \in 1..Len(items) |-> py_construct(name, items[i])])

\* json.loads(s), for texts made of digits, "-", brackets, commas and blanks:
\* integers and (nested) arrays of them
RECURSIVE skip_ws(_, _)
skip_ws(s, i) == IF i <= Len(s) /\ IsSpace(s[i]) THEN skip_ws(s, i + 1) ELSE i

RECURSIVE digits_end(_, _)
digits_end(s, i) == IF i <= Len(s) /\ IsDigit(s[i]) THEN digits_end(s, i + 1) ELSE i

JsonFail == [ok |-> FALSE]

\* the digits s[b..e-1] of a number
JsonDigits(s, neg, b, e) ==
    IF e = b THEN JsonFail
    ELSE [ok |-> TRUE,
          val |-> PyInt((IF neg THEN -1 ELSE 1) * digits_val(SubSeq(s, b, e - 1))),
          next |-> e]

\* -?(0|[1-9][0-9]*) at position i, b being where its digits begin
json_number(s, i) ==
    LET b == IF s[i] = "-" THEN i + 1 ELSE i
    IN JsonDigits(s, s[i] = "-", b,
                  IF b <= Len(s) /\ s[b] = "0" THEN b + 1 ELSE digits_end(s, b))

RECURSIVE json_value(_, _)
RECURSIVE json_items(_, _, _)
RECURSIVE JsonAfterItem(_, _, _, _)
RECURSIVE JsonAt(_, _)

\* the value at position j, no blank before it: an array (the empty one, or
\* its items) or a number
JsonAt(s, j) ==
    IF j > Len(s) THEN JsonFail
    ELSE IF s[j] = "["
    THEN IF skip_ws(s, j + 1) <= Len(s) /\ s[skip_ws(s, j + 1)] = "]"
         THEN [ok |-> TRUE, val |-> PyList(<<>>), next |-> skip_ws(s, j + 1) + 1]
         ELSE json_items(s, j + 1, <<>>)
    ELSE IF IsDigit(s[j]) \/ s[j] = "-" THEN json_number(s, j)
    ELSE JsonFail

json_value(s, i) == JsonAt(s, skip_ws(s, i))

\* after the item r, at position h: "," and the next item, or "]"
JsonAfterItem(s, acc, r, h) ==
    IF h > Len(s) THEN JsonFail
    ELSE IF s[h] = "," THEN json_items(s, h + 1, Append(acc, r.val))
    ELSE IF s[h] = "]"
    THEN [ok |-> TRUE, val |-> PyList(Append(acc, r.val)), next |-> h + 1]
    ELSE JsonFail

json_items(s, i, acc) ==
    LET r == json_value(s, i)
    IN IF r.ok THEN JsonAfterItem(s, acc, r, skip_ws(s, r.next)) ELSE JsonFail

json_loads(s) ==
    LET r == json_value(s, 1)
    IN IF r.ok /\ skip_ws(s, r.next) > Len(s) THEN Ok(r.val)
       ELSE Raise("JSONDecodeError", <<"Expecting value">>)

-----------------------------------------------------------------------------
(* types/secret.py: SecretStr *)

\* the attributes class SecretStr defines
SecretStrAttrs ==
    {"__slots__", "__init__", "_get_validate_method", "__validate__", "__str__",
     "__repr__", "value", "__mspec_encode__", "__mspec_copy__"}

\* SecretStr.__init__: self._value = str(value)
SecretStr_of_text(s) == IF s.ok THEN Ok([k |-> "SecretStr", _value |-> s.val.s]) ELSE s

SecretStr_init(value) == SecretStr_of_text(py_str(value))

\* SecretStr.value
SecretStr_value(self) == PyStr(self._value)

\* SecretStr.__validate__(value, typ)
SecretStr_validate(value, typ) ==
    IF value.k = "SecretStr" THEN Ok(value)
    ELSE IF value.k = "str" THEN SecretStr_init(value)
    ELSE SecretStr_of_text(py_str(value))

-----------------------------------------------------------------------------
(* hooks/enc.py *)

\* getattr(obj, name, None) is not None, for the classes of the model
HasAttr(obj, name) ==
    CASE obj.k = "SecretStr" -> name \in SecretStrAttrs
      [] obj.k = "object" -> name = "__encode__" /\ obj.encode_attr # "absent"
      [] OTHER -> FALSE

\* callable(getattr(obj, "__encode__", None))
EncodeCallable(obj) ==
    HasAttr(obj, "__encode__") /\ (obj.k = "object" => obj.encode_attr = "method")

_fallback_encode(obj) == Except(json_dumps(obj), {"TypeError", "ValueError"}, py_str(obj))

enc_hook(obj) ==
    IF EncodeCallable(obj)
    THEN Except(obj.encode_result, {"TypeError", "ValueError"}, _fallback_encode(obj))
    ELSE _fallback_encode(obj)


-----------------------------------------------------------------------------
(* Inputs of the encode hook and of SecretStr *)

\* the characters payloads are drawn from
PayloadChars == {"a", "b", "*"}

RECURSIVE StringsUpTo(_, _)
StringsUpTo(chars, n) ==
    IF n = 0 THEN {<<>>}
    ELSE LET shorter == StringsUpTo(chars, n - 1)
         IN shorter \cup {Append(s, c) : s \in shorter, c \in chars}

hunter2 == <<"h", "u", "n", "t", "e", "r", "2">>

\* what a SecretStr is built from: strings, and values str() converts
Payloads ==
    {PyStr(s) : s \in StringsUpTo(PayloadChars, MaxLen) \cup {hunter2}}
    \cup {PyInt(0), PyInt(42), PyInt(-7), PyBool(TRUE), PyBool(FALSE), PyNone}

Secrets == {(SecretStr_init(p)).val : p \in Payloads}

\* what a method of a user-defined class can do when called
MethodResults ==
    {Ok(PyStr(<<"e", "n", "c">>)), Ok(PyInt(1)),
     Raise("TypeError", <<"error in the method">>),
     Raise("ValueError", <<"error in the method">>),
     Raise("RuntimeError", <<"error in the method">>),
     Raise("AttributeError", <<"error in the method">>)}

\* instances of user-defined classes: __encode__ absent, a data attribute or a
\* method; __str__ returning or raising
Objects ==
    [k : {"object"}, encode_attr : {"absent", "data", "method"},
     encode_result : MethodResults,
     str_result : {Ok(PyStr(<<"<", "o", "b", "j", ">">>)),
                   Raise("TypeError", <<"error in the method">>),
                   Raise("RuntimeError", <<"error in the method">>)}]

EncInputs ==
    Secrets \cup Payloads \cup Objects
    \cup {PyList(<<x>>) : x \in {PyInt(1), (SecretStr_init(PyStr(hunter2))).val}}

-----------------------------------------------------------------------------
(* The values of the variables no call of these specifications touches *)

NoCache == [k |-> "NoneType"]
NoProvider == [kind |-> "none"]
NoCall == [fn |-> "none"]

Idle ==
    /\ environ = <<>>
    /\ env_cache = NoCache
    /\ env_cache_case_sensitive = TRUE
    /\ provider = NoProvider

IdleUnchanged == UNCHANGED <<environ, env_cache, env_cache_case_sensitive, provider>>

-----------------------------------------------------------------------------
(* SpecEnc: SecretStr and the encode hook, applied to drawn inputs *)

InitEnc == Idle /\ call = NoCall /\ ret = Ok(PyNone)

\* SecretStr(payload)
NewSecretStr ==
    \E p \in Payloads :
        /\ call' = [fn |-> "SecretStr", arg |-> p]
        /\ ret' = SecretStr_init(p)
        /\ IdleUnchanged

\* str(SecretStr(payload))
StrOfSecret ==
    \E p \in Payloads :
        /\ call' = [fn |-> "str", arg |-> p]
        /\ ret' = py_str((SecretStr_init(p)).val)
        /\ IdleUnchanged

\* repr(SecretStr(payload))
ReprOfSecret ==
    \E p \in Payloads :
        /\ call' = [fn |-> "repr", arg |-> p]
        /\ ret' = py_repr((SecretStr_init(p)).val)
        /\ IdleUnchanged

\* SecretStr(payload).value
ValueOfSecret ==
    \E p \in Payloads :
        /\ call' = [fn |-> "value", arg |-> p]
        /\ ret' = Ok(SecretStr_value((SecretStr_init(p)).val))
        /\ IdleUnchanged

\* enc_hook(obj)
CallEncHook ==
    \E obj \in EncInputs :
        /\ call' = [fn |-> "enc_hook", arg |-> obj]
        /\ ret' = enc_hook(obj)
        /\ IdleUnchanged

NextEnc == NewSecretStr \/ StrOfSecret \/ ReprOfSecret \/ ValueOfSecret \/ CallEncHook

SpecEnc == InitEnc /\ [][NextEnc]_vars


(* C4: for every payload s, enc_hook(SecretStr(s)) returns the real          *)
(* underlying value s and never the mask.                                    *)
C4_EncHookEmitsPayload ==
    (call.fn = "enc_hook" /\ call.arg.k = "SecretStr")
        => ret = Ok(PyStr(call.arg._value))

\* the string form of a payload, spelled out per class
PayloadText(p) ==
    CASE p.k = "str" -> p.s
      [] p.k = "int" -> IF p.i = 0 THEN <<"0">>
                        ELSE IF p.i = 42 THEN <<"4", "2">>
                        ELSE IF p.i = -7 THEN <<"-", "7">>
                        ELSE <<"?">>
      [] p.k = "bool" -> IF p.b THEN <<"T", "r", "u", "e">> ELSE <<"F", "a", "l", "s", "e">>
      [] p.k = "NoneType" -> <<"N", "o", "n", "e">>

(* C5: the display of a SecretStr does not depend on its payload: str() and  *)
(* repr() of any two secrets are equal, while the accessor .value returns    *)
(* exactly the payload in string form.                                       *)
C5_DisplayIndependentOfPayload ==
    /\ call.fn = "str" =>
          /\ ret.ok
          /\ \A q \in Payloads : py_str((SecretStr_init(q)).val) = ret
    /\ call.fn = "repr" =>
          /\ ret.ok
          /\ \A q \in Payloads : py_repr((SecretStr_init(q)).val) = ret
    /\ call.fn = "value" => ret = Ok(PyStr(PayloadText(call.arg)))

\* the display and the accessor have been used on the secret "hunter2"
C5_Witness ==
    /\ call.fn \in {"str", "value"}
    /\ call.arg = PyStr(hunter2)
    /\ ret.ok

(* C6: enc_hook never raises, whatever obj is and whatever failure its       *)
(* __encode__, the JSON dump or its string conversion produces.              *)
C6_EncHookNeverRaises == call.fn = "enc_hook" => ret.ok


-----------------------------------------------------------------------------
(* Type annotations *)

\* a plain class; a parameterized generic origin[args]; a union of members,
\* written typing.Union[...] (origin "Union") or A | B (origin "UnionType")
Cls(name) == [t |-> "class", name |-> name]
Alias(origin, args) == [t |-> "alias", origin |-> origin, args |-> args]
UnionOf(origin, args) == [t |-> "union", origin |-> origin, args |-> args]
\* the ... of tuple[T, ...]
Ellipsis == [t |-> "ellipsis"]
NoOrigin == [t |-> "none"]

\* typing.get_origin(typ), typing.get_args(typ)
get_origin(typ) ==
    CASE typ.t = "alias" -> Cls(typ.origin)
      [] typ.t = "union" -> Cls(typ.origin)
      [] OTHER -> NoOrigin
get_args(typ) == IF typ.t \in {"alias", "union"} THEN typ.args ELSE <<>>

\* the classes a class derives from, itself included
ClassBases(name) ==
    CASE name = "bool" -> {"bool", "int", "object"}
      [] name = "ListOf" -> {"ListOf", "list", "object"}
      [] OTHER -> {name, "object"}

\* isinstance(value, cls) for a class cls
IsInstance(value, name) == name \in ClassBases(value.k)

-----------------------------------------------------------------------------
(* hooks/dec.py: isinstance_typed *)

\* lru_cache'd; equal annotations have equal origins and arguments, so the cache
\* returns what the call computes
_get_type_info(typ) ==
    LET origin == get_origin(typ)
    IN IF origin = NoOrigin THEN <<typ, <<>>>> ELSE <<origin, get_args(typ)>>

_get_origin_only(typ) == get_origin(typ)

\* isinstance(value, typ) raises TypeError when typ is not a class; the values
\* of the model are never classes themselves, so the except branch gives False
_check_simple_type(value, typ) ==
    IF typ.t = "class" THEN IsInstance(value, typ.name) ELSE FALSE

RECURSIVE isinstance_typed(_, _)

_check_union_type(value, args) ==
    \E i \in 1..Len(args) : isinstance_typed(value, args[i])

_check_list_type(value, args) ==
    IF ~IsInstance(value, "list") THEN FALSE
    ELSE IF Len(args) = 0 THEN TRUE
    ELSE \A i \in 1..Len(value.items) : isinstance_typed(value.items[i], args[1])

_check_dict_type(value, args) ==
    IF ~IsInstance(value, "dict") THEN FALSE
    ELSE IF Len(args) = 0 THEN TRUE
    ELSE \A i \in 1..Len(value.pairs) :
            /\ isinstance_typed(value.pairs[i][1], args[1])
            /\ isinstance_typed(value.pairs[i][2], args[2])

\* a fixed tuple checked without comparing the arities: zip() stops at the shorter
_check_tuple_type_no_arity(value, args) ==
    IF ~IsInstance(value, "tuple") THEN FALSE
    ELSE IF Len(args) = 0 THEN TRUE
    ELSE IF Len(args) = 2 /\ args[2] = Ellipsis
    THEN \A i \in 1..Len(value.items) : isinstance_typed(value.items[i], args[1])
    ELSE \A i \in 1..Len(value.items) :
            i <= Len(args) => isinstance_typed(value.items[i], args[i])

_check_tuple_type(value, args) ==
    IF ~IsInstance(value, "tuple") THEN FALSE
    ELSE IF Len(args) = 0 THEN TRUE
    ELSE IF Len(args) = 2 /\ args[2] = Ellipsis
    THEN \A i \in 1..Len(value.items) : isinstance_typed(value.items[i], args[1])
    ELSE IF Len(args) # Len(value.items) THEN FALSE
    ELSE \A i \in 1..Len(args) : isinstance_typed(value.items[i], args[i])

isinstance_typed(value, typ) ==
    IF _get_origin_only(typ) = NoOrigin THEN _check_simple_type(value, typ)
    ELSE LET info == _get_type_info(typ)
             origin == info[1]
             args == info[2]
         IN IF origin = Cls("Union") \/ origin = Cls("UnionType")
            THEN _check_union_type(value, args)
            ELSE IF origin = Cls("list") THEN _check_list_type(value, args)
            ELSE IF origin = Cls("dict") THEN _check_dict_type(value, args)
            ELSE IF origin = Cls("tuple") THEN _check_tuple_type(value, args)
            ELSE IsInstance(value, origin.name)

-----------------------------------------------------------------------------
(* SpecTyped: isinstance_typed applied to a drawn value and annotation *)

\* deepest nesting of the annotations drawn
MaxDepth == 2

SeqsUpTo(S, n) == UNION {[1..m -> S] : m \in 0..n}

Atoms == {PyInt(1), PyStr(<<"a">>), PyBool(TRUE)}
\* what a container of the inputs holds: atoms and short lists of them
Inner == Atoms \cup {PyList(<<x>>) : x \in {PyInt(1), PyStr(<<"a">>)}}
DictKeys == {PyStr(<<"a">>), PyInt(1)}

TypedValues ==
    Atoms \cup {PyNone}
    \cup {PyList(s) : s \in SeqsUpTo(Inner, MaxElems)}
    \cup {PyTuple(s) : s \in SeqsUpTo(Inner, MaxElems)}
    \cup {PyDict(s) : s \in {q \in SeqsUpTo(DictKeys \X Inner, MaxElems) :
                                \A i, j \in 1..Len(q) : i # j => q[i][1] # q[j][1]}}

Prims == {Cls("int"), Cls("str")}

RECURSIVE Annotations(_)
Annotations(d) ==
    IF d = 0 THEN Prims \cup {Cls("bool")}
    ELSE LET in == Annotations(d - 1)
         IN in
            \cup {Alias("list", <<a>>) : a \in in}
            \cup {Alias("tuple", <<a, Ellipsis>>) : a \in in}
            \cup {Alias("tuple", <<a>>) : a \in in}
            \cup {UnionOf("UnionType", <<a, b>>) : a \in Prims, b \in in \ Prims}
            \cup {UnionOf("Union", <<a, b>>) : a \in Prims, b \in Prims}
            \cup {Alias("dict", <<a, b>>) : a \in Prims, b \in in}
            \cup {Alias("tuple", <<a, b>>) : a \in Prims, b \in in}

Pending == [ok |-> TRUE, val |-> [k |-> "pending"]]

InitTyped ==
    /\ Idle
    /\ \E v \in TypedValues, a \in Annotations(MaxDepth) :
          call = [fn |-> "isinstance_typed", value |-> v, typ |-> a]
    /\ ret = Pending

CallIsinstanceTyped ==
    /\ call.fn = "isinstance_typed"
    /\ ret = Pending
    /\ ret' = Ok(PyBool(isinstance_typed(call.value, call.typ)))
    /\ UNCHANGED call
    /\ IdleUnchanged

NextTyped == CallIsinstanceTyped

SpecTyped == InitTyped /\ [][NextTyped]_vars

\* the structural conformance relation, by the shape of the annotation
RECURSIVE Conforms(_, _)
Conforms(v, a) ==
    CASE a.t = "class" -> v.k = a.name \/ (v.k = "bool" /\ a.name = "int")
      [] a.t = "union" -> Conforms(v, a.args[1]) \/ Conforms(v, a.args[2])
      [] a.t = "alias" /\ a.origin = "list" ->
            v.k = "list" /\ \A i \in 1..Len(v.items) : Conforms(v.items[i], a.args[1])
      [] a.t = "alias" /\ a.origin = "dict" ->
            /\ v.k = "dict"
            /\ \A i \in 1..Len(v.pairs) :
                  Conforms(v.pairs[i][1], a.args[1]) /\ Conforms(v.pairs[i][2], a.args[2])
      [] a.t = "alias" /\ a.origin = "tuple" /\ a.args[Len(a.args)] = Ellipsis ->
            v.k = "tuple" /\ \A i \in 1..Len(v.items) : Conforms(v.items[i], a.args[1])
      [] a.t = "alias" /\ a.origin = "tuple" /\ a.args[Len(a.args)] # Ellipsis ->
            /\ v.k = "tuple"
            /\ Len(v.items) = Len(a.args)
            /\ \A i \in 1..Len(a.args) : Conforms(v.items[i], a.args[i])

(* C8: isinstance_typed(value, annotation) equals the structural conformance *)
(* relation: a union matches iff some member matches; list[T], dict[K, V]    *)
(* and tuple[T, ...] match iff the value is of the container class and every *)
(* element matches; a fixed tuple matches iff the arity is equal and each    *)
(* position matches, an arity mismatch giving false and not an error.        *)
C8_IsinstanceTypedIsConformance ==
    (call.fn = "isinstance_typed" /\ ret # Pending)
        => ret = Ok(PyBool(Conforms(call.value, call.typ)))

\* a fixed tuple of the wrong arity, whose positions all match, was refused
C8_Witness ==
    /\ call.fn = "isinstance_typed"
    /\ call.value = PyTuple(<<PyInt(1)>>)
    /\ call.typ = Alias("tuple", <<Cls("int"), Alias("list", <<Cls("str")>>)>>)
    /\ ret = Ok(PyBool(FALSE))


-----------------------------------------------------------------------------
(* types/lists.py: ListOf *)

\* ListOf.__class_getitem__(item): the class itself, whatever the item
ListOf_class_getitem(item) == Cls("ListOf")

\* cls(items)
ListOf_new(items) == [k |-> "ListOf", items |-> items]

\* inner_type in (int, str, ...)
IsOneOf(typ, names) == typ.t = "class" /\ typ.name \in names

\* cls(converted) of the try / except around the comprehension: the converted
\* items, or the unconverted ones when a TypeError / ValueError was raised
ConvertedOrKept(c, items) ==
    IF c.ok THEN Ok(ListOf_new(c.val))
    ELSE Except(c, {"TypeError", "ValueError"}, Ok(ListOf_new(items)))

\* the branch of a real list
ListOf_from_list(items, args) ==
    IF Len(args) > 0 /\ IsOneOf(args[1], {"int", "str", "float", "bool"})
    THEN ConvertedOrKept(ConstructAll(args[1].name, items), items)
    ELSE Ok(ListOf_new(items))

\* the comma-separated pieces, trimmed, the empty ones dropped
SplitItems(pieces) ==
    LET items == SelectSeq([i \in 1..Len(pieces) |-> str_strip(pieces[i])],
                           LAMBDA s : Len(s) > 0)
    IN [i \in 1..Len(items) |-> PyStr(items[i])]

\* the branch of a comma-separated string with the items strs; no item: the
\* code falls through to its last line and returns the value
ListOf_from_items(value, strs, args) ==
    IF Len(strs) = 0 THEN Ok(value)
    ELSE IF Len(args) > 0 /\ IsOneOf(args[1], {"int", "str"})
    THEN ConvertedOrKept(ConstructAll(args[1].name, strs), strs)
    ELSE Ok(ListOf_new(strs))

RECURSIVE ListOf_validate(_, _)
RECURSIVE ListOf_from_json(_, _, _)

\* the branch of a bracketed string, parsed being what json.loads gave
ListOf_from_json(value, typ, parsed) ==
    IF parsed.ok /\ IsInstance(parsed.val, "list") THEN ListOf_validate(parsed.val, typ)
    ELSE IF ~parsed.ok /\ ~Caught(parsed, {"JSONDecodeError"}) THEN parsed
    ELSE ListOf_from_items(value, SplitItems(str_split(value.s, ",")), get_args(typ))

ListOf_validate(value, typ) ==
    IF IsInstance(value, "ListOf") THEN Ok(value)
    ELSE IF IsInstance(value, "list") THEN ListOf_from_list(value.items, get_args(typ))
    ELSE IF IsInstance(value, "str")
    THEN IF str_startswith(value.s, "[") /\ str_endswith(value.s, "]")
         THEN ListOf_from_json(value, typ, json_loads(value.s))
         ELSE ListOf_from_items(value, SplitItems(str_split(value.s, ",")), get_args(typ))
    ELSE Ok(value)

-----------------------------------------------------------------------------
(* SpecList: ListOf[T].__validate__(value, ListOf[T]) on drawn raw values *)

ListChars == {"1", "2", ",", " ", "[", "]", "a"}

s_1c2c3 == <<"1", ",", " ", "2", ",", " ", "3">>
s_12c == <<"1", ",", "2", ",">>
s_json123 == <<"[", "1", ",", "2", ",", "3", "]">>

RawStrings == StringsUpTo(ListChars, MaxLen) \cup {s_1c2c3, s_12c, s_json123}

RawValues ==
    {PyStr(s) : s \in RawStrings}
    \cup {PyList(s) : s \in SeqsUpTo({PyInt(1), PyStr(<<"a">>), PyStr(<<"2">>)}, MaxElems)}
    \cup {PyInt(5), PyNone, ListOf_new(<<PyInt(1)>>)}

ItemTypes == {Cls("int"), Cls("str"), Cls("float")}

InitList ==
    /\ Idle
    /\ \E v \in RawValues, T \in ItemTypes :
          call = [fn |-> "ListOf.__validate__", value |-> v, item |-> T]
    /\ ret = Pending

\* ListOf[T].__validate__(value, ListOf[T])
CallListOfValidate ==
    /\ call.fn = "ListOf.__validate__"
    /\ ret = Pending
    /\ ret' = ListOf_validate(call.value, ListOf_class_getitem(call.item))
    /\ UNCHANGED call
    /\ IdleUnchanged

NextList == CallListOfValidate

SpecList == InitList /\ [][NextList]_vars

\* the comma-separated pieces of s, trimmed, the empty ones dropped
Pieces(s) == SplitItems(str_split(s, ","))

\* the pieces converted by T's constructor when T is int or str, left as
\* strings when a conversion fails
PiecesAs(T, pieces) ==
    IF T = Cls("int") /\ \A i \in 1..Len(pieces) : (int_of_str(pieces[i].s)).ok
    THEN [i \in 1..Len(pieces) |-> (int_of_str(pieces[i].s)).val]
    ELSE pieces

ConvertedPieces(s, T) == PiecesAs(T, Pieces(s))

ParseableJsonArray(s) ==
    str_startswith(s, "[") /\ str_endswith(s, "]") /\ (json_loads(s)).ok

(* C3: for a string v that is not a parseable bracketed JSON array,          *)
(* ListOf[T].__validate__(v, ListOf[T]) returns the sequence of the          *)
(* comma-separated pieces of v, trimmed, empty pieces dropped, converted by  *)
(* T's constructor when T is int or str: "1, 2, 3" gives [1, 2, 3], the      *)
(* empty string gives [], "1,2," gives [1, 2].                               *)
C3_CommaSeparatedPieces ==
    (/\ call.fn = "ListOf.__validate__"
     /\ ret # Pending
     /\ call.value.k = "str"
     /\ call.item \in {Cls("int"), Cls("str")}
     /\ ~ParseableJsonArray(call.value.s))
        => ret = Ok(ListOf_new(ConvertedPieces(call.value.s, call.item)))

-----------------------------------------------------------------------------
(* hooks/dec.py: dec_hook *)

_SIMPLE_TYPES == {"int", "str", "float", "bool", "bytes", "list", "dict", "tuple"}

\* a user-defined class used as a target type: its __validate__ (absent, or
\* what it does when called) and what its constructor does
UserCls(validate, init) ==
    [t |-> "class", name |-> "UserType", validate |-> validate, init |-> init]
NoMethod == [attr |-> FALSE]
Method(result) == [attr |-> TRUE, result |-> result]

\* getattr(cls, "__validate__", None) of a class: the bound method, or none
ClassValidate(typ, value, full) ==
    CASE typ.name = "SecretStr" -> Method(SecretStr_validate(value, full))
      [] typ.name = "ListOf" -> Method(ListOf_validate(value, full))
      [] typ.name = "UserType" -> typ.validate
      [] OTHER -> NoMethod

\* _get_validate_method(typ) applied to (value, typ): the type's own
\* __validate__, else the one of its __origin__; a union has neither
_get_validate_method(typ, value) ==
    CASE typ.t = "class" -> ClassValidate(typ, value, typ)
      [] typ.t = "alias" -> ClassValidate(Cls(typ.origin), value, typ)
      [] OTHER -> NoMethod

\* how a type shows inside the text of a generic or a union
RECURSIVE TypeText(_)
TypeText(typ) ==
    CASE typ.t = "class" -> <<IF typ.name = "NoneType" THEN "None" ELSE typ.name>>
      [] typ.t = "ellipsis" -> <<"...">>
      [] typ.t = "alias" ->
            <<typ.origin, "[">>
            \o str_join(<<", ">>, [i \in 1..Len(typ.args) |-> TypeText(typ.args[i])])
            \o <<"]">>
      [] typ.t = "union" /\ typ.origin = "UnionType" ->
            str_join(<<" | ">>, [i \in 1..Len(typ.args) |-> TypeText(typ.args[i])])
      [] typ.t = "union" /\ typ.origin # "UnionType" ->
            <<"typing.Union[">>
            \o str_join(<<", ">>, [i \in 1..Len(typ.args) |-> TypeText(typ.args[i])])
            \o <<"]">>

\* typ(value)
py_call(typ, value) ==
    CASE typ.t = "class" /\ typ.name = "SecretStr" -> SecretStr_init(value)
      [] typ.t = "class" /\ typ.name = "ListOf" -> SequenceOf("ListOf", py_iter(value))
      [] typ.t = "class" /\ typ.name = "UserType" -> typ.init
      [] typ.t = "class" /\ typ.name = "NoneType" ->
            Raise("TypeError", <<"NoneType takes no arguments">>)
      [] typ.t = "class" /\ typ.name \notin {"SecretStr", "ListOf", "UserType", "NoneType"} ->
            py_construct(typ.name, value)
      [] typ.t = "alias" -> py_construct(typ.origin, value)
      [] OTHER -> Raise("TypeError", <<"Cannot instantiate ">> \o TypeText(typ))

ConvertError(typ, value) ==
    Raise("TypeError",
          <<"Cannot convert ", value.k, " to ">>
          \o (IF typ.t = "class" THEN <<"<class '", typ.name, "'>">> ELSE TypeText(typ)))

\* the last resort: typ(value), its TypeError / ValueError turned into the
\* hook's own TypeError
DirectConstruction(typ, value) ==
    Except(py_call(typ, value), {"TypeError", "ValueError"}, ConvertError(typ, value))

\* m is the __validate__ method found (or none), already applied to (value, typ)
ValidatedOrConstructed(m, typ, value) ==
    IF m.attr
    THEN Except(m.result, {"TypeError", "ValueError"}, DirectConstruction(typ, value))
    ELSE DirectConstruction(typ, value)

dec_hook(typ, value) ==
    IF typ.t = "class" /\ typ.name \in _SIMPLE_TYPES THEN py_call(typ, value)
    ELSE ValidatedOrConstructed(_get_validate_method(typ, value), typ, value)

-----------------------------------------------------------------------------
(* SpecDec: dec_hook(typ, value) on drawn target types and raw values *)

UserInstance == [k |-> "UserType"]

UserResults ==
    {Ok(UserInstance),
     Raise("TypeError", <<"error in the method">>),
     Raise("ValueError", <<"error in the method">>),
     Raise("RuntimeError", <<"error in the method">>)}

DecTypes ==
    {Cls(n) : n \in _SIMPLE_TYPES \cup {"SecretStr", "ListOf"}}
    \cup {Alias("list", <<Cls("int")>>),
          UnionOf("UnionType", <<Cls("int"), Cls("NoneType")>>),
          UnionOf("Union", <<Cls("int"), Cls("str")>>)}
    \cup {UserCls(v, i) : v \in {NoMethod} \cup {Method(r) : r \in UserResults},
                          i \in UserResults}

DecValues ==
    {PyStr(s) : s \in StringsUpTo({"1", "a", ","}, MaxLen)}
    \cup {PyInt(5), PyInt(-1), PyNone, PyBool(TRUE), PyFloat(1500)}
    \cup {PyList(s) : s \in SeqsUpTo({PyInt(1), PyStr(<<"a", "b">>)}, MaxElems)}

InitDec ==
    /\ Idle
    /\ \E typ \in DecTypes, v \in DecValues :
          call = [fn |-> "dec_hook", typ |-> typ, value |-> v]
    /\ ret = Pending

CallDecHook ==
    /\ call.fn = "dec_hook"
    /\ ret = Pending
    /\ ret' = dec_hook(call.typ, call.value)
    /\ UNCHANGED call
    /\ IdleUnchanged

NextDec == CallDecHook

SpecDec == InitDec /\ [][NextDec]_vars

(* C7: dec_hook(typ, value) either returns a converted value or fails with a *)
(* type error that names the raw value's runtime kind and the target type;   *)
(* no other error kind escapes, also on the primitive fast path and after a  *)
(* __validate__ that raised a type or value error.                           *)
C7_OnlyConvertTypeErrorEscapes ==
    (call.fn = "dec_hook" /\ ret # Pending /\ ~ret.ok)
        => ret = ConvertError(call.typ, call.value)

-----------------------------------------------------------------------------
(* utils.py: the fields of a record type *)

\* the keys and values of the dicts below are strs (character sequences) and
\* Python values, held as insertion-ordered <<key, value>> pairs
DictHas(pairs, key) == \E i \in 1..Len(pairs) : pairs[i][1] = key

\* d.get(key)
DictGet(pairs, key) ==
    IF DictHas(pairs, key)
    THEN pairs[CHOOSE i \in 1..Len(pairs) : pairs[i][1] = key][2]
    ELSE PyNone

\* d.pop(key, None), the dict that is left
DictPop(pairs, key) == SelectSeq(pairs, LAMBDA kv : kv[1] # key)

\* msgspec.NODEFAULT
NODEFAULT == [k |-> "NODEFAULT"]

\* a msgspec.structs.Field
Field(name, type, default) == [name |-> name, type |-> type, default |-> default]

get_struct_fields(obj) == obj.fields

\* tuple(field.name.lower() for field in fields if field.default is NODEFAULT)
get_required_field_names_lower(obj) ==
    LET required == SelectSeq(get_struct_fields(obj), LAMBDA f : f.default = NODEFAULT)
    IN [i \in 1..Len(required) |-> str_lower(required[i].name)]

\* obj(**kwargs): each entry of kwargs is <<name, value>>, or <<>> for a field
\* that was given no value
NewStruct(obj, kwargs) ==
    IF ~kwargs.ok THEN kwargs
    ELSE IF \E i \in 1..Len(kwargs.val) : Len(kwargs.val[i]) = 0
    THEN Raise("TypeError", <<"Missing required argument">>)
    ELSE Ok([k |-> "struct", name |-> obj.name, pairs |-> kwargs.val])

-----------------------------------------------------------------------------
(* providers/env_prov.py, providers/json_prov.py, providers/abc.py *)

EnvProvider(prefix, case_sensitive) ==
    [kind |-> "env", prefix |-> prefix, case_sensitive |-> case_sensitive]

\* EnvProvider._init_cache: the class state it leaves
_init_cache(self) ==
    IF env_cache = NoCache \/ env_cache_case_sensitive # self.case_sensitive
    THEN [cache |-> PyDict(IF self.case_sensitive THEN environ
                           ELSE DictFromPairs(<<>>,
                                    [i \in 1..Len(environ) |->
                                        <<str_upper(environ[i][1]), environ[i][2]>>])),
          case_sensitive |-> self.case_sensitive]
    ELSE [cache |-> env_cache, case_sensitive |-> env_cache_case_sensitive]

\* EnvProvider.get_value, cache being EnvProvider._env_cache
EnvProvider_get_value(self, cache, key) ==
    IF cache = NoCache
    THEN Raise("AttributeError", <<"'NoneType' object has no attribute 'get'">>)
    ELSE Ok(DictGet(cache.pairs,
                    IF self.case_sensitive THEN self.prefix \o key
                    ELSE str_upper(self.prefix \o key)))

\* EnvProvider.get_all
EnvProvider_get_all(self, cache) ==
    IF cache = NoCache THEN <<>>
    ELSE DictFromPairs(<<>>,
            [i \in 1..Len(cache.pairs) |-> <<str_lower(cache.pairs[i][1]), cache.pairs[i][2]>>])

JSONProvider(value) == [kind |-> "json", normalized |-> value]

\* JSONProvider._normalize_dict_single_pass
_normalize_dict_single_pass(data) ==
    IF Len(data) = 0 THEN data
    ELSE IF str_islower(data[1][1]) THEN data
    ELSE DictFromPairs(<<>>,
            [i \in 1..Len(data) |->
                <<IF str_islower(data[i][1]) THEN data[i][1] ELSE str_lower(data[i][1]),
                  data[i][2]>>])

JSONProvider_get_value(self, key) == DictGet(self.normalized, str_lower(key))

JSONProvider_get_all(self) == self.normalized

\* a provider that has get_value and get_values and no get_all: it looks the
\* key up in its own mapping
LookupProvider(values) == [kind |-> "lookup", values |-> values]

\* provider.get_value(key)
get_value(self, cache, key) ==
    CASE self.kind = "env" -> EnvProvider_get_value(self, cache, key)
      [] self.kind = "json" -> Ok(JSONProvider_get_value(self, key))
      [] self.kind = "lookup" -> Ok(DictGet(self.values, key))

\* provider.get_values(keys): {key: self.get_value(key) for key in keys}
get_values(self, cache, keys) ==
    LET c == Collect([i \in 1..Len(keys) |-> get_value(self, cache, keys[i])])
    IN IF c.ok THEN Ok(PyDict(DictFromPairs(<<>>, [i \in 1..Len(keys) |-> <<keys[i], c.val[i]>>])))
       ELSE c

\* hasattr(provider, "get_all")
HasGetAll(self) == self.kind \in {"env", "json"}

\* provider.get_all()
get_all(self, cache) ==
    IF self.kind = "env" THEN EnvProvider_get_all(self, cache) ELSE JSONProvider_get_all(self)

-----------------------------------------------------------------------------
(* loader.py *)

\* str(value).lower() in ("true", "1", "yes", "on"), text being str(value)
TextIsTruthy(text) ==
    IF text.ok
    THEN Ok(PyBool(str_lower(text.val.s)
                       \in {<<"t","r","u","e">>, <<"1">>, <<"y","e","s">>, <<"o","n">>}))
    ELSE text

_convert_env_value(value, field_type) ==
    IF ~IsInstance(value, "str") THEN value
    ELSE CASE field_type = Cls("bool") -> TextIsTruthy(Ok(value)).val
           [] field_type = Cls("int") ->
                 Except(py_construct("int", value), {"ValueError", "TypeError"}, Ok(value)).val
           [] field_type = Cls("float") ->
                 Except(py_construct("float", value), {"ValueError", "TypeError"}, Ok(value)).val
           [] field_type = Cls("str") -> py_str(value).val
           [] OTHER -> value

\* ValueError(f"Required field {name!r} not found")
MissingError(name) == Raise("ValueError", <<"Required field '">> \o name \o <<"' not found">>)

\* required - data_keys, required being the lowercased names
MissingNames(required, data) ==
    {required[i] : i \in {j \in 1..Len(required) : ~DictHas(data, required[j])}}

\* the conversion of one supplied value on the fast path
FastConvert(field_type, value) ==
    CASE field_type = Cls("int") -> py_construct("int", value)
      [] field_type = Cls("float") -> py_construct("float", value)
      [] field_type = Cls("str") -> py_construct("str", value)
      [] field_type = Cls("bool") -> TextIsTruthy(py_str(value))
      [] OTHER -> Except(dec_hook(field_type, value), {"Exception"}, Ok(value))

\* kwargs[field_name] = ...
Keyed(name, r) == IF r.ok THEN Ok(<<name, r.val>>) ELSE r

\* one turn of the loop over the fields
FastField(field, data) ==
    IF DictHas(data, str_lower(field.name))
    THEN Keyed(field.name, FastConvert(field.type, DictGet(data, str_lower(field.name))))
    ELSE IF field.default # NODEFAULT THEN Ok(<<field.name, field.default>>)
    ELSE Ok(<<>>)

\* what the call may do: next(iter(missing)) of a set is any missing name
_extreme_fast_json_load(obj, data) ==
    IF MissingNames(get_required_field_names_lower(obj), data) # {}
    THEN {MissingError(n) : n \in MissingNames(get_required_field_names_lower(obj), data)}
    ELSE {NewStruct(obj, Collect([i \in 1..Len(obj.fields) |-> FastField(obj.fields[i], data)]))}

msgspec_ValidationError(m) == Raise("ValidationError", m)

\* msgspec's conversions of strs, made when strict is off
LaxStrTo(name, s) ==
    CASE name = "int" ->
            Except(IntFromDigits(IsNegative(s), IF IsNegative(s) THEN Tail(s) ELSE s),
                   {"ValueError"}, msgspec_ValidationError(<<"Expected 'int', got 'str'">>))
      [] name = "float" ->
            Except(FloatFromParts(IsNegative(s),
                                  str_split(IF IsNegative(s) THEN Tail(s) ELSE s, ".")),
                   {"ValueError"}, msgspec_ValidationError(<<"Expected 'float', got 'str'">>))
      [] name = "bool" ->
            IF str_lower(s) \in {<<"t","r","u","e">>, <<"1">>} THEN Ok(PyBool(TRUE))
            ELSE IF str_lower(s) \in {<<"f","a","l","s","e">>, <<"0">>} THEN Ok(PyBool(FALSE))
            ELSE msgspec_ValidationError(<<"Expected 'bool', got 'str'">>)
      [] name = "NoneType" ->
            IF str_lower(s) = <<"n","u","l","l">> THEN Ok(PyNone)
            ELSE msgspec_ValidationError(<<"Expected 'null', got 'str'">>)
      [] OTHER -> msgspec_ValidationError(<<"Expected '", name, "', got 'str'">>)

\* msgspec.convert of one value to a builtin class
ConvertToClass(name, v, strict) ==
    IF v.k = name THEN Ok(v)
    ELSE IF name = "float" /\ v.k = "int" THEN Ok(PyFloat(1000 * v.i))
    ELSE IF v.k = "str" /\ name # "str" /\ ~strict THEN LaxStrTo(name, v.s)
    ELSE msgspec_ValidationError(<<"Expected '", name, "', got '", v.k, "'">>)

\* msgspec.convert of one value to a field type: a builtin class or a union
\* of builtin classes (the field types of the record types loaded)
\* a union gives what its first member that takes the value gives
ConvertTo(typ, v, strict) ==
    IF typ.t = "union"
    THEN LET rs == [i \in 1..Len(typ.args) |-> ConvertToClass(typ.args[i].name, v, strict)]
         IN IF \E i \in 1..Len(rs) : rs[i].ok
            THEN rs[CHOOSE i \in 1..Len(rs) : rs[i].ok /\ \A h \in 1..(i - 1) : ~rs[h].ok]
            ELSE rs[1]
    ELSE ConvertToClass(typ.name, v, strict)

ConvertField(field, data, strict) ==
    IF DictHas(data, field.name)
    THEN Keyed(field.name, ConvertTo(field.type, DictGet(data, field.name), strict))
    ELSE IF field.default # NODEFAULT THEN Ok(<<field.name, field.default>>)
    ELSE msgspec_ValidationError(<<"Object missing required field '">> \o field.name \o <<"'">>)

\* msgspec.convert(data, obj, dec_hook=dec_hook, strict=strict): the keys of
\* data are matched with the field names as they are, other keys are ignored
msgspec_convert(data, obj, strict) ==
    NewStruct(obj, Collect([i \in 1..Len(obj.fields) |-> ConvertField(obj.fields[i], data, strict)]))

\* except msgspec.ValidationError as e: raise ValueError(f"Validation failed: {e}")
Validated(r) ==
    IF Caught(r, {"ValidationError"})
    THEN Raise("ValueError", <<"Validation failed: ">> \o r.msg)
    ELSE r

\* one turn of the loop over the fields of the EnvProvider branch
EnvField(data, field, field_lower) ==
    IF DictHas(data, field_lower)
    THEN DictPut(DictPop(data, field_lower), field.name,
                 _convert_env_value(DictGet(data, field_lower), field.type))
    ELSE IF field.default # NODEFAULT THEN DictPut(data, field.name, field.default)
    ELSE DictPop(data, field_lower)

RECURSIVE EnvFields(_, _)
EnvFields(data, fields) ==
    IF Len(fields) = 0 THEN data
    ELSE EnvFields(EnvField(data, Head(fields), str_lower(Head(fields).name)), Tail(fields))

\* load with a provider that has get_all and is an EnvProvider
LoadSnapshot(obj, data, strict) ==
    IF MissingNames(get_required_field_names_lower(obj), data) # {}
    THEN {MissingError(n) : n \in MissingNames(get_required_field_names_lower(obj), data)}
    ELSE {Validated(msgspec_convert(EnvFields(data, get_struct_fields(obj)), obj, strict))}

\* one turn of the loop of the branch without get_all, value being what
\* provider.get_value(field.name) gave
LookupField(self, field, value) ==
    IF ~value.ok THEN value
    ELSE IF value.val # PyNone
    THEN Ok(<<field.name,
              IF self.kind = "env" THEN _convert_env_value(value.val, field.type)
              ELSE value.val>>)
    ELSE IF field.default = NODEFAULT THEN MissingError(field.name)
    ELSE Ok(<<>>)

\* the dict the loop has filled
ConvertLookedUp(filled, obj, strict) ==
    IF filled.ok
    THEN Validated(msgspec_convert(SelectSeq(filled.val, LAMBDA kv : Len(kv) > 0), obj, strict))
    ELSE filled

LoadByLookup(obj, self, cache, strict) ==
    ConvertLookedUp(
        Collect([i \in 1..Len(obj.fields) |->
                    LookupField(self, obj.fields[i], get_value(self, cache, obj.fields[i].name))]),
        obj, strict)

\* load(obj, provider, strict=strict), provider being the argument or the
\* EnvProvider() made in its place, cache the class's cache after that
load(obj, self, cache, strict) ==
    IF HasGetAll(self) /\ self.kind # "env"
    THEN _extreme_fast_json_load(obj, get_all(self, cache))
    ELSE IF HasGetAll(self) THEN LoadSnapshot(obj, get_all(self, cache), strict)
    ELSE {LoadByLookup(obj, self, cache, strict)}

-----------------------------------------------------------------------------
(* SpecLoad: providers are built over a drawn environment or document and   *)
(* record types are loaded from them                                        *)

f_name == <<"n","a","m","e">>
f_retries == <<"r","e","t","r","i","e","s">>
f_port == <<"p","o","r","t">>
f_debug == <<"d","e","b","u","g">>
f_ratio == <<"R","a","t","i","o">>
svc == PyStr(<<"s","v","c">>)
other == PyStr(<<"o","t","h","e","r">>)
APP_ == <<"A","P","P","_">>

\* class Service(Struct): name: str; retries: int = 3
Service ==
    [t |-> "struct", name |-> "Service",
     fields |-> <<Field(f_name, Cls("str"), NODEFAULT),
                  Field(f_retries, Cls("int"), PyInt(3))>>]

\* class Endpoint(Struct): port: int | None; debug: bool = False
Endpoint ==
    [t |-> "struct", name |-> "Endpoint",
     fields |-> <<Field(f_port, UnionOf("UnionType", <<Cls("int"), Cls("NoneType")>>), NODEFAULT),
                  Field(f_debug, Cls("bool"), PyBool(FALSE))>>]

\* class Limits(Struct): Ratio: float; name: str
Limits ==
    [t |-> "struct", name |-> "Limits",
     fields |-> <<Field(f_ratio, Cls("float"), NODEFAULT),
                  Field(f_name, Cls("str"), NODEFAULT)>>]

RecordTypes == {Service, Endpoint, Limits}

\* os.environ at start: variable names are unique
Environments ==
    {<<>>,
     <<<<str_upper(f_name), svc>>>>,
     <<<<APP_ \o str_upper(f_name), svc>>>>,
     <<<<str_upper(f_name), other>>, <<APP_ \o str_upper(f_name), svc>>>>,
     <<<<f_name, svc>>, <<str_upper(f_retries), PyStr(<<"5">>)>>>>,
     <<<<str_upper(f_name), svc>>, <<str_upper(f_retries), PyStr(<<"x","1">>)>>>>,
     <<<<str_upper(f_port), PyStr(<<"8">>)>>, <<str_upper(f_debug), PyStr(<<"Y","e","s">>)>>>>,
     <<<<str_upper(f_port), PyStr(<<"a","b">>)>>>>,
     <<<<str_upper(f_ratio), PyStr(<<"1",".","5">>)>>, <<str_upper(f_name), svc>>>>,
     <<<<APP_ \o str_upper(f_port), PyStr(<<"8">>)>>>>}

\* the dicts a JSONProvider is built from
Documents ==
    {<<>>,
     <<<<f_name, svc>>>>,
     <<<<str_upper(f_name), svc>>, <<f_retries, PyInt(7)>>>>,
     <<<<f_name, svc>>, <<str_upper(f_retries), PyInt(7)>>>>,
     <<<<f_retries, PyStr(<<"5">>)>>, <<str_upper(f_name), svc>>>>,
     <<<<f_name, PyInt(5)>>, <<f_retries, PyStr(<<"x","1">>)>>>>,
     <<<<f_port, PyStr(<<"a","b">>)>>>>,
     <<<<f_port, PyInt(8)>>, <<f_debug, PyStr(<<"y","e","s">>)>>>>,
     <<<<f_port, PyNone>>, <<f_debug, PyBool(TRUE)>>>>,
     <<<<str_lower(f_ratio), PyStr(<<"1",".","5">>)>>, <<f_name, svc>>>>}

\* the mappings of the providers without get_all
Mappings ==
    {<<>>,
     <<<<f_name, svc>>>>,
     <<<<f_name, svc>>, <<f_retries, PyStr(<<"5">>)>>>>,
     <<<<f_name, PyInt(5)>>>>,
     <<<<f_port, PyStr(<<"8">>)>>, <<f_debug, PyStr(<<"y","e","s">>)>>>>,
     <<<<f_ratio, PyFloat(1500)>>, <<f_name, svc>>>>}

Prefixes == {<<>>, APP_}
Keys == {f_name, str_upper(f_name), f_port}

InitLoad ==
    /\ environ \in Environments
    /\ env_cache = NoCache
    /\ env_cache_case_sensitive = TRUE
    /\ provider = NoProvider
    /\ call = NoCall
    /\ ret = Ok(PyNone)

\* EnvProvider(prefix, case_sensitive): __init__ runs _init_cache
NewEnvProvider ==
    \E prefix \in Prefixes, case_sensitive \in BOOLEAN :
        /\ provider' = EnvProvider(prefix, case_sensitive)
        /\ env_cache' = _init_cache(EnvProvider(prefix, case_sensitive)).cache
        /\ env_cache_case_sensitive' = _init_cache(EnvProvider(prefix, case_sensitive)).case_sensitive
        /\ call' = [fn |-> "EnvProvider", prefix |-> prefix, case_sensitive |-> case_sensitive]
        /\ ret' = Ok(PyNone)
        /\ UNCHANGED environ

\* JSONProvider(value) of a dict
NewJSONProvider ==
    \E value \in Documents :
        /\ provider' = JSONProvider(_normalize_dict_single_pass(value))
        /\ call' = [fn |-> "JSONProvider", value |-> value]
        /\ ret' = Ok(PyNone)
        /\ UNCHANGED <<environ, env_cache, env_cache_case_sensitive>>

NewLookupProvider ==
    \E values \in Mappings :
        /\ provider' = LookupProvider(values)
        /\ call' = [fn |-> "LookupProvider", value |-> values]
        /\ ret' = Ok(PyNone)
        /\ UNCHANGED <<environ, env_cache, env_cache_case_sensitive>>

\* EnvProvider.clear_cache()
clear_cache ==
    /\ env_cache' = NoCache
    /\ env_cache_case_sensitive' = TRUE
    /\ call' = [fn |-> "clear_cache"]
    /\ ret' = Ok(PyNone)
    /\ UNCHANGED <<environ, provider>>

\* provider.get_value(key)
CallGetValue ==
    \E key \in Keys :
        /\ provider # NoProvider
        /\ call' = [fn |-> "get_value", key |-> key]
        /\ ret' = get_value(provider, env_cache, key)
        /\ UNCHANGED <<environ, env_cache, env_cache_case_sensitive, provider>>

\* provider.get_values([key])
CallGetValues ==
    \E key \in Keys :
        /\ provider # NoProvider
        /\ call' = [fn |-> "get_values", key |-> key]
        /\ ret' = get_values(provider, env_cache, <<key>>)
        /\ UNCHANGED <<environ, env_cache, env_cache_case_sensitive, provider>>

\* provider.get_all()
CallGetAll ==
    /\ provider # NoProvider
    /\ HasGetAll(provider)
    /\ call' = [fn |-> "get_all"]
    /\ ret' = Ok(PyDict(get_all(provider, env_cache)))
    /\ UNCHANGED <<environ, env_cache, env_cache_case_sensitive, provider>>

\* the class state when load has its provider: provider or EnvProvider()
CacheAtLoad ==
    IF provider = NoProvider THEN _init_cache(EnvProvider(<<>>, FALSE))
    ELSE [cache |-> env_cache, case_sensitive |-> env_cache_case_sensitive]

\* load(obj, provider, strict=strict)
CallLoad ==
    \E obj \in RecordTypes, strict \in BOOLEAN :
        /\ env_cache' = CacheAtLoad.cache
        /\ env_cache_case_sensitive' = CacheAtLoad.case_sensitive
        /\ call' = [fn |-> "load", obj |-> obj, strict |-> strict,
                    provider |-> IF provider = NoProvider THEN EnvProvider(<<>>, FALSE)
                                 ELSE provider]
        /\ ret' \in load(obj, call'.provider, CacheAtLoad.cache, strict)
        /\ UNCHANGED <<environ, provider>>

NextLoad ==
    \/ NewEnvProvider
    \/ NewJSONProvider
    \/ NewLookupProvider
    \/ clear_cache
    \/ CallGetValue
    \/ CallGetValues
    \/ CallGetAll
    \/ CallLoad

SpecLoad == InitLoad /\ [][NextLoad]_vars

\* the values a dict holds under the keys that equal key when case is ignored
ValuesIgnoringCase(pairs, key) ==
    {pairs[i][2] : i \in {j \in 1..Len(pairs) : str_lower(pairs[j][1]) = str_lower(key)}}

\* the raw values the provider p supplies for the field called name: an
\* EnvProvider from the variable prefix + name of its snapshot, a JSONProvider
\* from its document, both matched without regard to case; a provider without
\* get_all from what its get_value returns
Supplied(p, name) ==
    CASE p.kind = "env" ->
            IF env_cache = NoCache THEN {}
            ELSE ValuesIgnoringCase(env_cache.pairs, p.prefix \o name)
      [] p.kind = "json" -> ValuesIgnoringCase(p.normalized, name)
      [] p.kind = "lookup" -> {p.values[i][2] : i \in {j \in 1..Len(p.values) : p.values[j][1] = name}}

\* the required fields of obj that the provider p supplies no value for
AbsentRequired(obj, p) ==
    {f \in {obj.fields[i] : i \in 1..Len(obj.fields)} :
        f.default = NODEFAULT /\ Supplied(p, f.name) = {}}

IsMissingError(r) == ~r.ok /\ r.exc = "ValueError" /\ r.msg[1] = "Required field '"

\* the field name an error of this kind shows
NamedIn(r) == SubSeq(r.msg, 2, Len(r.msg) - 1)

(* C1: load(record_type, provider) fails with the missing-required-field      *)
(* error exactly when some required field has no value in the provider under *)
(* case-insensitive key matching, and the field the error names is a         *)
(* required field that is really absent, on each of the three paths of load. *)
C1_MissingRequiredFieldExactly ==
    call.fn = "load" =>
        /\ IsMissingError(ret) <=> AbsentRequired(call.obj, call.provider) # {}
        /\ IsMissingError(ret) =>
              \E f \in AbsentRequired(call.obj, call.provider) :
                  str_lower(f.name) = str_lower(NamedIn(ret))

\* the classes a field type names
Members(typ) == IF typ.t = "union" THEN {typ.args[i] : i \in 1..Len(typ.args)} ELSE {typ}

\* the conversions of a raw value to a primitive class
Coercions(cls, raw) ==
    CASE cls.name = "bool" -> {TextIsTruthy(py_str(raw))}
      [] cls.name \in {"int", "float", "str"} -> {py_construct(cls.name, raw)}
      [] OTHER -> {}

\* the values of the declared type that a raw value is coerced to
CoercedValues(typ, raw) ==
    IF Conforms(raw, typ) THEN {raw}
    ELSE {r.val : r \in {c \in UNION {Coercions(cls, raw) : cls \in Members(typ)} : c.ok}}

\* the value the record r holds for the field called name
FieldValue(r, name) == DictGet(r.pairs, name)

\* the record holds the coerced supplied value of field f, else f's default
HoldsSuppliedOrDefault(r, p, f) ==
    IF Supplied(p, f.name) # {}
    THEN \E raw \in Supplied(p, f.name) : FieldValue(r, f.name) \in CoercedValues(f.type, raw)
    ELSE FieldValue(r, f.name) = f.default

(* C2: when all required fields are present, the record load returns holds,  *)
(* for each declared field, the coerced provider value when the provider     *)
(* supplies the field (case-insensitive key) and the declared default when   *)
(* it does not: {name: str, retries: int = 3} with only NAME=svc gives       *)
(* name = "svc", retries = 3.                                                *)
C2_RecordHoldsValueOrDefault ==
    (call.fn = "load" /\ ret.ok /\ AbsentRequired(call.obj, call.provider) = {})
        => \A i \in 1..Len(call.obj.fields) :
              HoldsSuppliedOrDefault(ret.val, call.provider, call.obj.fields[i])

(* C9: every record load returns holds, for each declared field, a value     *)
(* that conforms to the field's declared type, or the field's default; a raw *)
(* value that cannot be converted makes load fail instead, on every provider *)
(* path.                                                                     *)
C9_RecordConformsToTypes ==
    (call.fn = "load" /\ ret.ok)
        => \A i \in 1..Len(call.obj.fields) :
              \/ Conforms(FieldValue(ret.val, call.obj.fields[i].name), call.obj.fields[i].type)
              \/ FieldValue(ret.val, call.obj.fields[i].name) = call.obj.fields[i].default

(* C10: with an EnvProvider built with prefix P, load fills each field f     *)
(* from the variable P + f (matched case-insensitively) and not from the     *)
(* unprefixed variable f: it does not report a field missing whose prefixed  *)
(* variable is set, the record holds the prefixed variable's value, and      *)
(* get_all gives each key the value get_value gives it.                      *)
C10_PrefixedVariableFillsField ==
    /\ (call.fn = "load" /\ call.provider.kind = "env") =>
          /\ IsMissingError(ret) => AbsentRequired(call.obj, call.provider) # {}
          /\ ret.ok =>
                \A i \in 1..Len(call.obj.fields) :
                    \A raw \in Supplied(call.provider, call.obj.fields[i].name) :
                        FieldValue(ret.val, call.obj.fields[i].name)
                            \in CoercedValues(call.obj.fields[i].type, raw)
    /\ (call.fn = "get_all" /\ provider.kind = "env") =>
          \A key \in Keys :
              get_value(provider, env_cache, key) = Ok(DictGet(ret.val.pairs, str_lower(key)))

-----------------------------------------------------------------------------
(* DotenvProvider; SpecEnv: the process environment changes while providers *)
(* are built over it and read                                                *)

FirstPos(c, s) == CHOOSE i \in 1..Len(s) : s[i] = c /\ \A j \in 1..(i - 1) : s[j] # c

\* what load_dotenv binds for one line of the file: <<KEY, VALUE>> of a
\* KEY=VALUE line (blanks around either are dropped), nothing for a blank
\* line, a comment or a line without "="
DotenvBinding(line) ==
    IF Len(str_strip(line)) = 0 \/ str_strip(line)[1] = "#" \/ ~InSeq("=", line) THEN <<>>
    ELSE <<str_strip(SubSeq(line, 1, FirstPos("=", line) - 1)),
           PyStr(str_strip(SubSeq(line, FirstPos("=", line) + 1, Len(line))))>>

\* dotenv_values: the bindings of the file, a later line replacing an earlier
\* one of the same KEY
dotenv_values(lines) ==
    DictFromPairs(<<>>, SelectSeq([i \in 1..Len(lines) |-> DotenvBinding(lines[i])],
                                  LAMBDA kv : Len(kv) > 0))

\* load_dotenv sets os.environ[k] = v for each binding, leaving a variable
\* that is already set alone unless override
RECURSIVE set_as_environment_variables(_, _, _)
set_as_environment_variables(env, values, override) ==
    IF Len(values) = 0 THEN env
    ELSE set_as_environment_variables(
            IF DictHas(env, values[1][1]) /\ ~override THEN env
            ELSE DictPut(env, values[1][1], values[1][2]),
            Tail(values), override)

load_dotenv(env, lines, override) ==
    set_as_environment_variables(env, dotenv_values(lines), override)

Line(key, value) == key \o <<"=">> \o value.s
eight == PyStr(<<"8">>)

\* the dotenv files: none (or an empty one), a single line, a comment and a
\* line with blanks, two lines
DotenvFiles ==
    {<<>>,
     <<Line(str_upper(f_name), svc)>>,
     <<<<"#"," ","c">>, str_upper(f_port) \o <<" ","="," ">> \o eight.s>>,
     <<Line(str_upper(f_name), other), Line(str_upper(f_port), eight)>>}

\* os.environ at start
EnvStarts == {<<>>, <<<<str_upper(f_name), svc>>>>, <<<<f_name, other>>>>}
\* the variables the process sets later, and their values
EnvNames == {str_upper(f_name), str_upper(f_port)}
EnvValues == {svc, eight}

InitEnv ==
    /\ environ \in EnvStarts
    /\ env_cache = NoCache
    /\ env_cache_case_sensitive = TRUE
    /\ provider = NoProvider
    /\ call = NoCall
    /\ ret = Ok(PyNone)

\* DotenvProvider(dotenv_path, override): EnvProvider.__init__ first, with its
\* _init_cache, then load_dotenv of the file into os.environ
NewDotenvProvider ==
    \E lines \in DotenvFiles, override \in BOOLEAN :
        /\ provider' = EnvProvider(<<>>, FALSE)
        /\ env_cache' = _init_cache(EnvProvider(<<>>, FALSE)).cache
        /\ env_cache_case_sensitive' = _init_cache(EnvProvider(<<>>, FALSE)).case_sensitive
        /\ environ' = load_dotenv(environ, lines, override)
        /\ call' = [fn |-> "DotenvProvider", lines |-> lines, override |-> override,
                    environ |-> environ]
        /\ ret' = Ok(PyNone)

\* os.environ[name] = value, anywhere in the process
PutEnv ==
    \E name \in EnvNames, value \in EnvValues :
        /\ DictGet(environ, name) # value
        /\ environ' = DictPut(environ, name, value)
        /\ call' = [fn |-> "putenv", name |-> name, value |-> value]
        /\ ret' = Ok(PyNone)
        /\ UNCHANGED <<env_cache, env_cache_case_sensitive, provider>>

\* EnvProvider(prefix, case_sensitive) built somewhere else in the process:
\* the instance read here stays the one it was
FurtherEnvProvider ==
    \E prefix \in Prefixes, case_sensitive \in BOOLEAN :
        /\ provider # NoProvider
        /\ env_cache' = _init_cache(EnvProvider(prefix, case_sensitive)).cache
        /\ env_cache_case_sensitive' = _init_cache(EnvProvider(prefix, case_sensitive)).case_sensitive
        /\ call' = [fn |-> "EnvProvider", prefix |-> prefix, case_sensitive |-> case_sensitive]
        /\ ret' = Ok(PyNone)
        /\ UNCHANGED <<environ, provider>>

NextEnv ==
    \/ NewEnvProvider
    \/ NewDotenvProvider
    \/ FurtherEnvProvider
    \/ PutEnv
    \/ clear_cache
    \/ CallGetValue
    \/ CallGetValues
    \/ CallGetAll
    \/ CallLoad

SpecEnv == InitEnv /\ [][NextEnv]_vars

\* the variables of env whose name equals name when case is ignored
NamedIgnoringCase(env, name) ==
    {i \in 1..Len(env) : str_upper(env[i][1]) = str_upper(name)}

\* a load of obj through the provider gives the field of that name the
\* file's value: it does not report the field missing and a record it
\* returns holds the value, coerced to the field's type
LoadGives(obj, name, value) ==
    \A i \in {j \in 1..Len(obj.fields) : str_upper(obj.fields[j].name) = str_upper(name)} :
        \A r \in load(obj, provider, env_cache, FALSE) :
            /\ ~(IsMissingError(r) /\ str_upper(NamedIn(r)) = str_upper(name))
            /\ r.ok => FieldValue(r.val, obj.fields[i].name) \in CoercedValues(obj.fields[i].type, value)

(* C11: after DotenvProvider(file, override) is constructed, for every KEY   *)
(* of the file that was not in the process environment (under any case),     *)
(* the provider's get_value(KEY) returns the file's VALUE, get_all holds it  *)
(* under the lowercased KEY and a load through the provider fills the field  *)
(* of that name with it, also when no provider was constructed before; with  *)
(* override false a KEY already in the environment keeps its value.          *)
C11_DotenvFileVisibleThroughProvider ==
    call.fn = "DotenvProvider" =>
        \A i \in 1..Len(dotenv_values(call.lines)) :
            /\ NamedIgnoringCase(call.environ, dotenv_values(call.lines)[i][1]) = {} =>
                  /\ get_value(provider, env_cache, dotenv_values(call.lines)[i][1])
                        = Ok(dotenv_values(call.lines)[i][2])
                  /\ DictGet(get_all(provider, env_cache),
                             str_lower(dotenv_values(call.lines)[i][1]))
                        = dotenv_values(call.lines)[i][2]
                  /\ \A obj \in RecordTypes :
                        LoadGives(obj, dotenv_values(call.lines)[i][1],
                                  dotenv_values(call.lines)[i][2])
            /\ (DictHas(call.environ, dotenv_values(call.lines)[i][1]) /\ ~call.override) =>
                  DictGet(environ, dotenv_values(call.lines)[i][1])
                      = DictGet(call.environ, dotenv_values(call.lines)[i][1])

\* a load of obj through the JSON provider matches the document's key to the
\* field whose lowercased name equals the lowercased key: the field is not
\* reported missing and a record that is returned holds the key's value, as
\* it is or coerced to the field's type
LoadMatches(obj, key, value) ==
    \A i \in {j \in 1..Len(obj.fields) : str_lower(obj.fields[j].name) = str_lower(key)} :
        \A r \in load(obj, provider, env_cache, FALSE) :
            /\ ~(IsMissingError(r) /\ str_lower(NamedIn(r)) = str_lower(key))
            /\ r.ok => FieldValue(r.val, obj.fields[i].name)
                          \in ({value} \cup CoercedValues(obj.fields[i].type, value))

(* C12: after JSONProvider(document) is constructed, for every top-level key *)
(* k of the document, whatever its case and its position among the keys,     *)
(* get_all() contains k lowercased, get_value of k, of k lowercased and of k *)
(* uppercased returns k's value, and load matches k to the field whose       *)
(* lowercased name equals k lowercased.                                      *)
C12_EveryTopLevelKeyLowercased ==
    call.fn = "JSONProvider" =>
        \A i \in 1..Len(call.value) :
            /\ DictHas(JSONProvider_get_all(provider), str_lower(call.value[i][1]))
            /\ \A key \in {call.value[i][1], str_lower(call.value[i][1]),
                           str_upper(call.value[i][1])} :
                  JSONProvider_get_value(provider, key) = call.value[i][2]
            /\ \A obj \in RecordTypes :
                  LoadMatches(obj, call.value[i][1], call.value[i][2])

\* what the instance EnvProvider(prefix, case_sensitive) reads from the
\* class's cache: get_value of each key, and get_all
Reads(prefix, case_sensitive, cache) ==
    <<[key \in Keys |-> get_value(EnvProvider(prefix, case_sensitive), cache, key)],
      get_all(EnvProvider(prefix, case_sensitive), cache)>>

(* C13: once the process-wide snapshot of EnvProvider is populated, every    *)
(* step other than a call of clear_cache - a change of the process           *)
(* environment, the construction of a further EnvProvider of either          *)
(* case-sensitivity mode, a read, a load - leaves what get_value and get_all *)
(* of every EnvProvider instance return as it was: nothing but clear_cache   *)
(* refreshes the snapshot.                                                   *)
C13_SnapshotKeptUntilCleared ==
    [][(env_cache # NoCache /\ call'.fn # "clear_cache") =>
          \A prefix \in Prefixes, case_sensitive \in BOOLEAN :
              Reads(prefix, case_sensitive, env_cache') = Reads(prefix, case_sensitive, env_cache)]_vars

====
